---- MODULE Spec2Model ----
(***************************************************************************)
(* Model of the agent endpoint (route.ts, kept as src/unnamed/part_000)    *)
(* and of the client component that calls it (AgentWorkspace.tsx).         *)
(*                                                                         *)
(* A handler invocation is a record that walks through the stages of POST. *)
(* Optional values (undefined / absent property) are sequences of length   *)
(* 0 or 1.  Times are integers: toISOString() is fixed-width, so the order *)
(* of the strings is the order of the instants they denote.                *)
(***************************************************************************)
EXTENDS Integers, Sequences, FiniteSets, TLC

VARIABLES
  apiKey,    \* whether process.env.OPENAI_API_KEY is set
  clock,     \* the server's wall clock, read by new Date()
  handlers,  \* the invocations of POST under way, by request
  running,   \* the invocation the server's thread is executing, if any
  seed,      \* the workspace the client started from
  cs,        \* the component's state: workspace, messages, isThinking, error
  view,      \* the state as of the last render, which submitToAgent closes over
  calls,     \* the client's fetches under way, with what each closed over
  nextId     \* the next request of the client

clientVars == <<seed, cs, view, calls, nextId>>
vars == <<apiKey, clock, handlers, running, seed, cs, view, calls, nextId>>

\* ------------------------------------------------------------------ bounds
MaxClock == 2
MaxTurns == 2

\* ------------------------------------------------- constants of the schema
MaxTasks == 12
MaxAutomations == 6
MaxDecisions == 8
MaxInsights == 8

\* ---------------------------------------------------------------- options
None == <<>>
Some(x) == <<x>>
IsSome(o) == o # <<>>
Get(o) == o[1]

\* a ?? b
Coalesce(a, b) == IF a = None THEN b ELSE a

\* ------------------------------------------------------------------- data
TaskStatus == {"backlog", "in-progress", "blocked", "done"}

Task(i) == [id |-> i, status |-> "backlog"]
Tasks(n) == [i \in 1..n |-> Task(i)]
Items(n) == [i \in 1..n |-> i]
Reverse(seq) == [k \in 1..Len(seq) |-> seq[Len(seq) + 1 - k]]

Workspace(t, a, d, i, kh, at) ==
  [tasks |-> t, automations |-> a, decisions |-> d, insights |-> i,
   knowledgeHighlights |-> kh, updatedAt |-> at]

Message(i, r, c) == [id |-> i, role |-> r, content |-> c]
User(i, c) == Message(i, "user", c)
Assistant(i, c) == Message(i, "assistant", c)

\* --------------------------------------------------------------- responses
ErrorResponse(st, msg) == [status |-> st, body |-> [error |-> msg]]

MissingKeyMessage ==
  "Missing OPENAI_API_KEY. Set the environment variable to connect the autonomous agent."
InvalidPayloadMessage == "Invalid request payload."
GenericFailureMessage == "The autonomous agent could not complete the request."

\* Faulty variant: the credential check is skipped.
CredentialMissing_Skipped(key) == FALSE

\* if (!process.env.OPENAI_API_KEY)
CredentialMissing(key) == ~key

MissingKeyResponse == ErrorResponse(500, MissingKeyMessage)

\* Faulty variant: a body that cannot be parsed is reported as a server error.
ParseFailureResponse_ServerError == ErrorResponse(500, InvalidPayloadMessage)

\* the catch of request.json()
ParseFailureResponse == ErrorResponse(400, InvalidPayloadMessage)

\* Faulty variant: a failure inside the try block is reported as a bad request.
CatchResponse_ClientError(cause) == ErrorResponse(400, GenericFailureMessage)

\* Faulty variant: the caught error is echoed to the client.
CatchResponse_Echo(cause) == ErrorResponse(500, cause)

\* the catch around generateObject, mergeWorkspace and the response assembly:
\* the caught error goes to console.error only
CatchResponse(cause) == ErrorResponse(500, GenericFailureMessage)

SuccessResponse(agentResult, workspace) ==
  [status |-> 200,
   body |-> [reply |-> agentResult.reply,
             workspace |-> workspace,
             actionSummary |-> agentResult.actionSummary]]

\* ------------------------------------------------------------------ schema
\* Faulty variant: the task list has no .max(12).
agentResponseSchema_NoTaskMax(raw) ==
  /\ \A k \in 1..Len(raw.tasks) : raw.tasks[k].status \in TaskStatus
  /\ Len(raw.automations) <= MaxAutomations
  /\ Len(raw.decisions) <= MaxDecisions
  /\ Len(raw.insights) <= MaxInsights

\* agentResponseSchema: the list bounds and the task status enum.
agentResponseSchema(raw) ==
  /\ Len(raw.tasks) <= MaxTasks
  /\ \A k \in 1..Len(raw.tasks) : raw.tasks[k].status \in TaskStatus
  /\ Len(raw.automations) <= MaxAutomations
  /\ Len(raw.decisions) <= MaxDecisions
  /\ Len(raw.insights) <= MaxInsights

\* ------------------------------------------------------------------- merge
\* Faulty variant: the generated tasks are added to the prior ones.
mergeWorkspace_Union(prior, updates, now) ==
  [prior EXCEPT
     !.tasks = prior.tasks \o updates.tasks,
     !.automations = updates.automations,
     !.decisions = updates.decisions,
     !.insights = updates.insights,
     !.knowledgeHighlights =
        Coalesce(updates.knowledgeHighlights, prior.knowledgeHighlights),
     !.updatedAt = now]

\* Faulty variant: the highlights are reset to an empty list.
mergeWorkspace_HighlightsReset(prior, updates, now) ==
  [prior EXCEPT
     !.tasks = updates.tasks,
     !.automations = updates.automations,
     !.decisions = updates.decisions,
     !.insights = updates.insights,
     !.knowledgeHighlights = Some(<<>>),
     !.updatedAt = now]

\* mergeWorkspace, with the reading of new Date() passed in as now.
mergeWorkspace(prior, updates, now) ==
  [prior EXCEPT
     !.tasks = updates.tasks,
     !.automations = updates.automations,
     !.decisions = updates.decisions,
     !.insights = updates.insights,
     !.knowledgeHighlights =
        Coalesce(updates.knowledgeHighlights, prior.knowledgeHighlights),
     !.updatedAt = now]

\* The second argument POST builds for mergeWorkspace.
MergeUpdates(agentResult, priorWorkspace) ==
  [tasks |-> agentResult.tasks,
   automations |-> agentResult.automations,
   decisions |-> agentResult.decisions,
   insights |-> agentResult.insights,
   knowledgeHighlights |-> priorWorkspace.knowledgeHighlights]

\* ------------------------------------------------------- prompt composition
RECURSIVE LatestUser(_)
\* [...messages].reverse().find(m => m.role === "user")
LatestUser(messages) ==
  IF messages = <<>> THEN None
  ELSE IF messages[Len(messages)].role = "user"
       THEN Some(messages[Len(messages)])
       ELSE LatestUser(SubSeq(messages, 1, Len(messages) - 1))

\* Faulty variant: the query is taken from the first user message.
QueryOf_FirstUser(messages) ==
  LET users == { k \in 1..Len(messages) : messages[k].role = "user" } IN
    IF users = {} THEN ""
    ELSE messages[CHOOSE k \in users : \A j \in users : k <= j].content

\* latestUserMessage?.content ?? ""
QueryOf(messages) ==
  IF IsSome(LatestUser(messages)) THEN Get(LatestUser(messages)).content ELSE ""

\* searchKnowledgeBase(query, undefined): a fixed ranking of a static corpus.
searchKnowledgeBase(query) ==
  CASE query = "" -> <<>>
    [] query = "q1" -> <<"kb1">>
    [] OTHER -> <<"kb2", "kb1">>

\* knowledgeSummary || "No directly relevant knowledge snippets located."
KnowledgeSection(entries) ==
  IF entries = <<>>
  THEN <<"No directly relevant knowledge snippets located.">>
  ELSE entries

\* formatConversationHistory: one "role: content" line per message, in order.
formatConversationHistory(messages) ==
  [k \in 1..Len(messages) |-> <<messages[k].role, messages[k].content>>]

\* buildSystemPrompt: instructions derived from the workspace in the request.
buildSystemPrompt(workspace) ==
  [taskCount |-> Len(workspace.tasks),
   automationCount |-> Len(workspace.automations)]

\* buildPromptPayload for a request that has a message list: the sections of
\* the prompt in their order (the instructions that follow are fixed text).
buildPromptPayload(request) ==
  LET knowledgeSuggestions == searchKnowledgeBase(QueryOf(request.messages)) IN
    [knowledge |-> KnowledgeSection(knowledgeSuggestions),
     history |-> formatConversationHistory(request.messages)]

\* ------------------------------------------------------- request bodies
NotJson == [kind |-> "notjson", messages |-> None, workspace |-> None]
JsonBody(messages, workspace) ==
  [kind |-> "json", messages |-> messages, workspace |-> workspace]

MessageLists ==
  { <<>>,
    <<User(1, "q1")>>,
    <<Assistant(1, "a1")>>,
    <<User(1, "q1"), User(2, "q2"), Assistant(3, "a1"), Assistant(4, "a2")>> }

KnowledgeHighlightValues == { None, Some(<<>>), Some(<<"h1", "h2">>) }

\* Workspaces a caller may send: lists below, at and above the schema bounds.
PriorWorkspaces ==
  { Workspace(t, <<>>, <<>>, <<>>, kh, at) :
      t \in { <<>>, Tasks(2), Tasks(MaxTasks + 1) },
      kh \in KnowledgeHighlightValues, at \in 0..MaxClock }
  \cup
  { Workspace(Tasks(1), Items(MaxAutomations + 1), Items(MaxDecisions + 1),
              Items(MaxInsights + 1), Some(<<"h1">>), at) : at \in 0..MaxClock }

Bodies ==
  { NotJson }
  \cup { JsonBody(Some(<<User(1, "q1")>>), Some(w)) : w \in PriorWorkspaces }
  \cup { JsonBody(Some(m), Some(Workspace(Tasks(1), <<>>, <<>>, <<>>, Some(<<>>), 0))) :
           m \in MessageLists }
  \cup { JsonBody(None, Some(Workspace(Tasks(1), <<>>, <<>>, <<>>, Some(<<>>), 0))),
         JsonBody(Some(<<User(1, "q1")>>), None) }

\* ------------------------------------------------------------- generation
Raw(r, s, t, a, d, i) ==
  [reply |-> r, tasks |-> t, automations |-> a, decisions |-> d,
   insights |-> i, actionSummary |-> s]

\* What the model may emit for a workspace whose tasks are T.
RawOutputs(T) ==
  { Raw("", <<"did r1 ">>, Append(T, Task(Len(T) + 1)), Items(1), Items(1), Items(1)),
    Raw("r2\n", <<>>, Reverse(Tasks(MaxTasks)), Items(MaxAutomations),
        Items(MaxDecisions), Items(MaxInsights)),
    Raw("r3", <<"did r3", "next">>, Tasks(MaxTasks + 1), <<>>, <<>>, <<>>),
    Raw("r4", <<"did r4", "next">>, T, Items(MaxAutomations + 1), <<>>, <<>>),
    Raw("r5", <<"did r5", "next">>, T, <<>>, Items(MaxDecisions + 1), <<>>),
    Raw("r6", <<"did r6", "next">>, T, <<>>, <<>>, Items(MaxInsights + 1)),
    Raw("r7", <<"did r7", "next">>, <<[id |-> 1, status |-> "archived"]>>,
        <<>>, <<>>, <<>>) }

PriorTasks(payload) ==
  IF IsSome(payload.workspace) THEN Get(payload.workspace).tasks ELSE <<>>

\* The outcomes of the call of the model: no answer, an answer that is not an
\* object, or an object, which generateObject validates against the schema.
GenOutcomes(payload) ==
  { [kind |-> "upstream_failure", raw |-> None],
    [kind |-> "malformed_output", raw |-> None] }
  \cup { [kind |-> "object", raw |-> Some(r)] : r \in RawOutputs(PriorTasks(payload)) }

GenAccepted(outcome) == outcome.kind = "object" /\ agentResponseSchema(Get(outcome.raw))
GenCause(outcome) ==
  IF outcome.kind = "object" THEN "schema_violation" ELSE outcome.kind

\* --------------------------------------------------------------- handlers
NewHandler(origin, body) ==
  [pc |-> "CredentialCheck", origin |-> origin, body |-> body,
   payload |-> None, system |-> None, query |-> None, knowledge |-> None,
   prompt |-> None, gen |-> None, genCalls |-> 0, agentResult |-> None,
   merged |-> None, logged |-> None, response |-> None, stages |-> <<>>]

At(id, stage) == id \in DOMAIN handlers /\ handlers[id].pc = stage

\* JavaScript runs an invocation to its next await before any other: POST
\* awaits request.json() and generateObject(), and ends at a return.
Resumes(id) == running = None
Continues(id) == running = Some(id)
Awaits(h) == h.pc \in {"PayloadParse", "Generation", "Done"}

Enter(h, stage) == [h EXCEPT !.stages = Append(@, stage)]

\* return NextResponse.json(...) ends the invocation.
Return(h, resp) == [h EXCEPT !.pc = "Done", !.response = Some(resp)]

\* Faulty variant: the error response carries the workspace of the request.
Catch_WithWorkspace(h, cause) ==
  Return([h EXCEPT !.logged = Some(cause)],
         [status |-> 500,
          body |-> [error |-> GenericFailureMessage, workspace |-> h.body.workspace]])

\* Faulty variant: the failed step is logged and tried again.
Catch_Retry(h, cause) == [h EXCEPT !.logged = Some(cause)]

\* A throw inside the try block: console.error, then the generic response.
Catch(h, cause) ==
  Return([h EXCEPT !.logged = Some(cause)], CatchResponse(cause))

Put(id, h) ==
  /\ handlers' = [handlers EXCEPT ![id] = h]
  /\ running' = IF Awaits(h) THEN None ELSE Some(id)

\* ----------------------------------------------------------------- POST
CredentialCheck(id) ==
  /\ At(id, "CredentialCheck")
  /\ Resumes(id)
  /\ LET h == Enter(handlers[id], "CredentialCheck") IN
       IF CredentialMissing(apiKey)
       THEN Put(id, Return(h, MissingKeyResponse))
       ELSE Put(id, [h EXCEPT !.pc = "PayloadParse"])
  /\ UNCHANGED <<apiKey, clock, clientVars>>

PayloadParse(id) ==
  /\ At(id, "PayloadParse")
  /\ Resumes(id)
  /\ LET h == Enter(handlers[id], "PayloadParse") IN
       IF h.body.kind = "notjson"
       THEN Put(id, Return(h, ParseFailureResponse))
       ELSE Put(id, [h EXCEPT !.payload = Some(h.body), !.pc = "SystemPrompt"])
  /\ UNCHANGED <<apiKey, clock, clientVars>>

\* system: buildSystemPrompt(payload.workspace).  The function is not part of
\* the route; handed no workspace it either throws or returns some text.
SystemPrompt(id) ==
  /\ At(id, "SystemPrompt")
  /\ Continues(id)
  /\ LET h == Enter(handlers[id], "SystemPrompt")
         p == Get(h.payload) IN
       IF IsSome(p.workspace)
       THEN Put(id, [h EXCEPT !.system = Some(buildSystemPrompt(Get(p.workspace))),
                              !.pc = "KnowledgeRetrieval"])
       ELSE \/ Put(id, Catch(h, "type_error"))
            \/ Put(id, [h EXCEPT !.system = Some([taskCount |-> 0, automationCount |-> 0]),
                                 !.pc = "KnowledgeRetrieval"])
  /\ UNCHANGED <<apiKey, clock, clientVars>>

\* buildPromptPayload, first half: [...request.messages] throws a TypeError
\* when the body has no messages.
KnowledgeRetrieval(id) ==
  /\ At(id, "KnowledgeRetrieval")
  /\ Continues(id)
  /\ LET h == Enter(handlers[id], "KnowledgeRetrieval")
         p == Get(h.payload) IN
       IF IsSome(p.messages)
       THEN Put(id, [h EXCEPT !.query = Some(QueryOf(Get(p.messages))),
                              !.knowledge = Some(searchKnowledgeBase(QueryOf(Get(p.messages)))),
                              !.pc = "PromptComposition"])
       ELSE Put(id, Catch(h, "type_error"))
  /\ UNCHANGED <<apiKey, clock, clientVars>>

\* buildPromptPayload, second half, and the call generateObject({...}) its
\* result is the last argument of: the call is made in the same run, and
\* POST yields at the await with the generation under way.
PromptComposition(id) ==
  /\ At(id, "PromptComposition")
  /\ Continues(id)
  /\ LET h == Enter(handlers[id], "PromptComposition")
         p == Get(h.payload) IN
       Put(id, [Enter(h, "Generation") EXCEPT
                  !.prompt = Some(buildPromptPayload([messages |-> Get(p.messages)])),
                  !.genCalls = @ + 1,
                  !.pc = "Generation"])
  /\ UNCHANGED <<apiKey, clock, clientVars>>

\* await generateObject({..., schema: agentResponseSchema}) settles: with an
\* object the schema accepts, or with a throw into the catch block.
Generation(id) ==
  /\ At(id, "Generation")
  /\ Resumes(id)
  /\ \E outcome \in GenOutcomes(Get(handlers[id].payload)) :
       LET h == [handlers[id] EXCEPT !.gen = Some(outcome)] IN
         IF GenAccepted(outcome)
         THEN Put(id, [h EXCEPT !.agentResult = outcome.raw, !.pc = "Merge"])
         ELSE Put(id, Catch(h, GenCause(outcome)))
  /\ UNCHANGED <<apiKey, clock, clientVars>>

\* const workspace = mergeWorkspace(payload.workspace, {...}): reading
\* payload.workspace.knowledgeHighlights throws when there is no workspace.
Merge(id) ==
  /\ At(id, "Merge")
  /\ Continues(id)
  /\ LET h == Enter(handlers[id], "Merge")
         p == Get(h.payload) IN
       IF IsSome(p.workspace)
       THEN Put(id, [h EXCEPT
                       !.merged = Some(mergeWorkspace(Get(p.workspace),
                                         MergeUpdates(Get(h.agentResult), Get(p.workspace)),
                                         clock)),
                       !.pc = "Response"])
       ELSE Put(id, Catch(h, "type_error"))
  /\ UNCHANGED <<apiKey, clock, clientVars>>

\* return NextResponse.json(response, { status: 200 })
Response(id) ==
  /\ At(id, "Response")
  /\ Continues(id)
  /\ LET h == Enter(handlers[id], "Response") IN
       Put(id, Return(h, SuccessResponse(Get(h.agentResult), Get(h.merged))))
  /\ UNCHANGED <<apiKey, clock, clientVars>>

\* The server's clock moves on (observed between the runs of the thread).
Tick ==
  /\ clock < MaxClock
  /\ running = None
  /\ clock' = clock + 1
  /\ UNCHANGED <<apiKey, handlers, running, clientVars>>

\* ------------------------------------------------- a caller of the endpoint
\* Some caller sends a POST with any body, one request at a time.
DirectPost ==
  /\ DOMAIN handlers = {}
  /\ \E body \in Bodies : handlers' = (1 :> NewHandler("direct", body))
  /\ UNCHANGED <<apiKey, clock, running, clientVars>>

\* The caller has its response; the invocation is over.
DirectReceive ==
  /\ At(1, "Done")
  /\ handlers[1].origin = "direct"
  /\ handlers' = <<>>
  /\ UNCHANGED <<apiKey, clock, running, clientVars>>

\* ------------------------------------------------------------ the client
OfflineMessage == "Agent interface is offline right now. Try again in a moment."
FetchFailedMessage == "Failed to fetch"

\* What the JSON parser says of a body it refuses: an empty body, the end of
\* the body inside a string, a body whose first character starts no JSON
\* text, the end of the body where a member of an object should go on.
\* Positions count from 0 and the body is one line.  A body of up to twenty
\* characters is quoted whole; of a longer one the first ten are quoted,
\* followed by an ellipsis.
ParserText(failure) ==
  CASE failure.kind = "empty_body" -> "Unexpected end of JSON input"
    [] failure.kind = "unterminated_string" ->
         "Unterminated string in JSON at position " \o ToString(failure.at)
           \o " (line 1 column " \o ToString(failure.at + 1) \o ")"
    [] failure.kind = "unexpected_token" ->
         "Unexpected token '" \o SubSeq(failure.body, 1, 1) \o "', \""
           \o ( IF Len(failure.body) <= 20
                THEN failure.body \o "\""
                ELSE SubSeq(failure.body, 1, 10) \o "\"..." )
           \o " is not valid JSON"
    [] failure.kind = "expected_comma_or_brace" ->
         "Expected ',' or '}' after property value in JSON at position "
           \o ToString(failure.at) \o " (line 1 column "
           \o ToString(failure.at + 1) \o ")"

\* The message of the error response.json() rejects with.  The browser puts
\* the name of the method before the parser's text when the whole body had
\* arrived by the call of json(), and gives the bare text when the body was
\* still on its way.
JsonParseMessage(failure, arrived) ==
  IF arrived
  THEN "Failed to execute 'json' on 'Response': " \o ParserText(failure)
  ELSE ParserText(failure)

\* Bodies of a status-OK response that do not parse: cut after ten
\* characters, empty, a short and a long HTML page, cut before the closing
\* brace.
ParseFailureKinds ==
  << [kind |-> "unterminated_string", at |-> 10],
     [kind |-> "empty_body"],
     [kind |-> "unexpected_token", body |-> "<html><body>502"],
     [kind |-> "unexpected_token", body |-> "<html><body>502 Bad Gateway</body></html>"],
     [kind |-> "expected_comma_or_brace", at |-> 225] >>

\* How the body of the n-th request is broken, when it is.
ParseFailures(n) == { ParseFailureKinds[((n - 1) % Len(ParseFailureKinds)) + 1] }

\* The messages response.json() of the n-th request can reject with: the
\* parser's, with the body arrived or on its way, or that of a transfer that
\* broke off.
BodyRejections(n) ==
  { JsonParseMessage(failure, arrived) :
      failure \in ParseFailures(n), arrived \in BOOLEAN } \cup { FetchFailedMessage }

FailureNotice ==
  "I ran into an error executing that request. Double-check the agent credentials or try again shortly."

\* What the user sends in the n-th submit.
PromptTexts == << " \f q1 ﻿\n", "q2 ", "q3", "q4" >>
Prompts(n) == { PromptTexts[((n - 1) % Len(PromptTexts)) + 1] }

\* createInitialWorkspace and createInitialMessages
SeedWorkspaces ==
  { Workspace(Tasks(1), <<>>, <<>>, <<>>, kh, at) :
      kh \in { None, Some(<<"h1", "h2">>) }, at \in { 0 } }
SeedMessages == << Assistant(0, "hello") >>

Closure(state) ==
  [workspace |-> state.workspace, messages |-> state.messages,
   isThinking |-> state.isThinking, synced |-> state.synced]

\* The component renders again; submitToAgent is rebuilt over the new state.
Render ==
  /\ view # Closure(cs)
  /\ view' = Closure(cs)
  /\ UNCHANGED <<apiKey, clock, handlers, running, seed, cs, calls, nextId>>

\* [data.reply, "", data.actionSummary.join("\n")].join("\n").trim()
RECURSIVE JoinLines(_)
JoinLines(lines) ==
  IF lines = <<>> THEN ""
  ELSE IF Len(lines) = 1 THEN lines[1]
  ELSE lines[1] \o "\n" \o JoinLines(Tail(lines))

\* String.prototype.trim: white space and line ends are taken off both ends.
\* The set holds space, line feed, tab, carriage return, form feed, vertical
\* tab (U+000B), no-break space (U+00A0), the Ogham space mark (U+1680) and
\* the byte order mark (U+FEFF).  trim also removes U+2000..U+200A, U+2028,
\* U+2029, U+202F, U+205F and U+3000; a string literal cannot hold those, so
\* no text of this module contains them.
IsSpace(c) == c \in {" ", "\n", "\t", "\r", "\f", "", " ", " ", "﻿"}

RECURSIVE TrimStart(_)
TrimStart(text) ==
  IF Len(text) > 0 /\ IsSpace(SubSeq(text, 1, 1))
  THEN TrimStart(SubSeq(text, 2, Len(text)))
  ELSE text

RECURSIVE TrimEnd(_)
TrimEnd(text) ==
  IF Len(text) > 0 /\ IsSpace(SubSeq(text, Len(text), Len(text)))
  THEN TrimEnd(SubSeq(text, 1, Len(text) - 1))
  ELSE text

Trim(text) == TrimEnd(TrimStart(text))

AssistantContent(data) ==
  Trim(JoinLines(<<data.reply, "", JoinLines(data.actionSummary)>>))

\* submitToAgent up to the fetch: the user message is appended to the
\* messages of the closure and the body carries the workspace of the closure.
Submit ==
  /\ ~view.isThinking
  /\ nextId <= MaxTurns
  /\ \E prompt \in Prompts(nextId) :
       LET optimisticMessages ==
             Append(view.messages, User(2 * nextId - 1, Trim(prompt))) IN
         /\ cs' = [cs EXCEPT !.messages = optimisticMessages,
                             !.isThinking = TRUE,
                             !.error = None]
         /\ calls' = calls @@ (nextId :> [pc |-> "fetch",
                                          optimisticMessages |-> optimisticMessages,
                                          sentSynced |-> view.synced])
         /\ handlers' = handlers @@
              (nextId :> NewHandler("client",
                           JsonBody(Some(optimisticMessages), Some(view.workspace))))
  /\ nextId' = nextId + 1
  /\ UNCHANGED <<apiKey, clock, running, seed, view>>

Without(f, id) == [k \in DOMAIN f \ {id} |-> f[k]]

\* The catch and finally blocks of submitToAgent.
Failed(state, id, message) ==
  [state EXCEPT !.messages = Append(@, Assistant(2 * id, FailureNotice)),
                !.error = Some(message),
                !.isThinking = FALSE]

\* Faulty variant: the response is applied only when the workspace is still
\* the one the request was sent with.
ReceiveOk_ExpectedSnapshot(id) ==
  /\ id \in DOMAIN calls
  /\ calls[id].pc = "json"
  /\ LET data == Get(handlers[id].response).body IN
       cs' = [cs EXCEPT
                !.messages = Append(calls[id].optimisticMessages,
                                    Assistant(2 * id, AssistantContent(data))),
                !.workspace = IF cs.workspace = Get(handlers[id].body.workspace)
                              THEN data.workspace ELSE @,
                !.synced = TRUE,
                !.isThinking = FALSE]
  /\ calls' = Without(calls, id)
  /\ handlers' = Without(handlers, id)
  /\ UNCHANGED <<apiKey, clock, running, seed, view, nextId>>

\* await fetch resolves with response.ok: submitToAgent goes on to
\* await response.json(), and other callbacks run before the body is read.
ReceiveHeaders(id) ==
  /\ id \in DOMAIN calls
  /\ calls[id].pc = "fetch"
  /\ At(id, "Done")
  /\ Get(handlers[id].response).status = 200
  /\ calls' = [calls EXCEPT ![id].pc = "json"]
  /\ UNCHANGED <<apiKey, clock, handlers, running, seed, cs, view, nextId>>

\* await response.json() resolves: the reply and the workspace are applied.
ReceiveOk(id) ==
  /\ id \in DOMAIN calls
  /\ calls[id].pc = "json"
  /\ LET data == Get(handlers[id].response).body IN
       cs' = [cs EXCEPT
                !.messages = Append(calls[id].optimisticMessages,
                                    Assistant(2 * id, AssistantContent(data))),
                !.workspace = data.workspace,
                !.synced = TRUE,
                !.isThinking = FALSE]
  /\ calls' = Without(calls, id)
  /\ handlers' = Without(handlers, id)
  /\ UNCHANGED <<apiKey, clock, running, seed, view, nextId>>

\* await fetch resolves with a status that is not OK: the throw of line 106.
ReceiveError(id) ==
  /\ id \in DOMAIN calls
  /\ calls[id].pc = "fetch"
  /\ At(id, "Done")
  /\ Get(handlers[id].response).status # 200
  /\ cs' = Failed(cs, id, OfflineMessage)
  /\ calls' = Without(calls, id)
  /\ handlers' = Without(handlers, id)
  /\ UNCHANGED <<apiKey, clock, running, seed, view, nextId>>

\* await fetch rejects: the request or its response is lost on the way.
\* Nothing aborts the request: an invocation of POST it started runs on.
FetchRejects(id) ==
  /\ id \in DOMAIN calls
  /\ calls[id].pc = "fetch"
  /\ cs' = Failed(cs, id, FetchFailedMessage)
  /\ calls' = Without(calls, id)
  /\ UNCHANGED <<apiKey, clock, handlers, running, seed, view, nextId>>

\* The response of an invocation whose fetch has rejected reaches no one.
ResponseLost(id) ==
  /\ At(id, "Done")
  /\ handlers[id].origin = "client"
  /\ id \notin DOMAIN calls
  /\ handlers' = Without(handlers, id)
  /\ UNCHANGED <<apiKey, clock, running, clientVars>>

\* await response.json() rejects: the body is not JSON and the catch block
\* runs with the message of the parser, or the transfer of the body breaks
\* off and it runs with the message of the failed fetch.
BodyRejects(id) ==
  /\ id \in DOMAIN calls
  /\ calls[id].pc = "json"
  /\ \E message \in BodyRejections(id) : cs' = Failed(cs, id, message)
  /\ calls' = Without(calls, id)
  /\ handlers' = Without(handlers, id)
  /\ UNCHANGED <<apiKey, clock, running, seed, view, nextId>>

\* ------------------------------------------------------ specifications
InitServer ==
  /\ apiKey \in BOOLEAN
  /\ clock = 0
  /\ handlers = <<>>
  /\ running = None

InitClient ==
  /\ seed \in SeedWorkspaces
  /\ cs = [workspace |-> seed, messages |-> SeedMessages, isThinking |-> FALSE,
           error |-> None, synced |-> FALSE]
  /\ view = Closure(cs)
  /\ calls = <<>>
  /\ nextId = 1

\* The endpoint alone, called with any body.
Init ==
  /\ InitServer
  /\ InitClient
  /\ seed = Workspace(Tasks(1), <<>>, <<>>, <<>>, None, 0)

Stage ==
  \/ \E id \in DOMAIN handlers : CredentialCheck(id)
  \/ \E id \in DOMAIN handlers : PayloadParse(id)
  \/ \E id \in DOMAIN handlers : SystemPrompt(id)
  \/ \E id \in DOMAIN handlers : KnowledgeRetrieval(id)
  \/ \E id \in DOMAIN handlers : PromptComposition(id)
  \/ \E id \in DOMAIN handlers : Generation(id)
  \/ \E id \in DOMAIN handlers : Merge(id)
  \/ \E id \in DOMAIN handlers : Response(id)

Next ==
  \/ DirectPost
  \/ Stage
  \/ DirectReceive
  \/ Tick

Spec == Init /\ [][Next]_vars

\* The component and the endpoint it calls.
NextClient ==
  \/ Submit
  \/ Render
  \/ Stage
  \/ \E id \in DOMAIN calls : ReceiveHeaders(id)
  \/ \E id \in DOMAIN calls : ReceiveOk(id)
  \/ \E id \in DOMAIN calls : ReceiveError(id)
  \/ \E id \in DOMAIN calls : FetchRejects(id)
  \/ \E id \in DOMAIN calls : BodyRejects(id)
  \/ \E id \in DOMAIN handlers : ResponseLost(id)
  \/ Tick

InitOfClient == InitServer /\ InitClient

SpecClient == InitOfClient /\ [][NextClient]_vars

\* ================================================================ claims
Ids == DOMAIN handlers
Finished(id) == handlers[id].pc = "Done"
ResponseOf(id) == Get(handlers[id].response)
Succeeded(id) == Finished(id) /\ ResponseOf(id).status = 200
RawOf(id) == Get(Get(handlers[id].gen).raw)
PriorOf(id) == Get(handlers[id].body.workspace)
Last(seq) == seq[Len(seq)]
IsPrefix(a, b) == Len(a) <= Len(b) /\ SubSeq(b, 1, Len(a)) = a

\* C1: without the credential every request, whatever its body, ends in the
\* status-500 response with the missing-credential message; its body is never
\* parsed, no knowledge is retrieved and the model is never called.
C1_MissingCredential ==
  \A id \in Ids :
    ~apiKey =>
      /\ handlers[id].payload = None
      /\ handlers[id].query = None
      /\ handlers[id].knowledge = None
      /\ handlers[id].gen = None
      /\ handlers[id].genCalls = 0
      /\ Finished(id) =>
           /\ ResponseOf(id).status = 500
           /\ ResponseOf(id).body =
                [error |-> "Missing OPENAI_API_KEY. Set the environment variable to connect the autonomous agent."]
           /\ handlers[id].stages = <<"CredentialCheck">>

C1_Witness ==
  \E id \in Ids :
    /\ ~apiKey
    /\ Finished(id)
    /\ handlers[id].body.kind = "json"
    /\ IsSome(handlers[id].body.messages)
    /\ IsSome(handlers[id].body.workspace)

\* C2: with the credential, a body that is not JSON ends in status 400 with
\* "Invalid request payload."; nothing is retrieved, generated or merged.
C2_InvalidPayload ==
  \A id \in Ids :
    (apiKey /\ handlers[id].body.kind = "notjson") =>
      /\ handlers[id].knowledge = None
      /\ handlers[id].genCalls = 0
      /\ handlers[id].merged = None
      /\ "Merge" \notin { handlers[id].stages[k] : k \in 1..Len(handlers[id].stages) }
      /\ Finished(id) =>
           /\ ResponseOf(id).status = 400
           /\ ResponseOf(id).body = [error |-> "Invalid request payload."]

C2_Witness ==
  \E id \in Ids :
    apiKey /\ handlers[id].body.kind = "notjson" /\ Finished(id)

GenerationFailed(id) ==
  /\ IsSome(handlers[id].gen)
  /\ \/ Get(handlers[id].gen).kind \in {"upstream_failure", "malformed_output"}
     \/ /\ Get(handlers[id].gen).kind = "object"
        /\ \/ Len(RawOf(id).tasks) > 12
           \/ Len(RawOf(id).automations) > 6
           \/ Len(RawOf(id).decisions) > 8
           \/ Len(RawOf(id).insights) > 8
           \/ \E k \in 1..Len(RawOf(id).tasks) :
                RawOf(id).tasks[k].status \notin {"backlog", "in-progress", "blocked", "done"}

\* C3: every failure of the generation call, whatever its cause, ends in
\* status 500 with the one fixed message and nothing else in the body; the
\* cause is logged, not sent, and the merge does not run.
C3_GenerationFailure ==
  \A id \in Ids :
    GenerationFailed(id) =>
      /\ Finished(id)
      /\ ResponseOf(id).status = 500
      /\ ResponseOf(id).body =
           [error |-> "The autonomous agent could not complete the request."]
      /\ handlers[id].logged # None
      /\ ResponseOf(id).body.error # Get(handlers[id].logged)
      /\ handlers[id].merged = None
      /\ Last(handlers[id].stages) = "Generation"

C3_Witness ==
  \E id \in Ids :
    /\ GenerationFailed(id)
    /\ Finished(id)
    /\ handlers[id].logged = Some("schema_violation")

\* C4: the merged workspace's four lists are the generated lists, element for
\* element and in the generated order, whatever the prior lists were; when
\* the generation returns the prior tasks plus one, the prior tasks come
\* first, unaltered.
C4_WholesaleReplace ==
  \A id \in Ids :
    IsSome(handlers[id].merged) =>
      LET ws == Get(handlers[id].merged) IN
        /\ ws.tasks = RawOf(id).tasks
        /\ ws.automations = RawOf(id).automations
        /\ ws.decisions = RawOf(id).decisions
        /\ ws.insights = RawOf(id).insights
        /\ Succeeded(id) => ResponseOf(id).body.workspace = ws
        /\ ( /\ Len(RawOf(id).tasks) = Len(PriorOf(id).tasks) + 1
             /\ IsPrefix(PriorOf(id).tasks, RawOf(id).tasks) ) =>
             /\ ws.tasks = Append(PriorOf(id).tasks, Last(RawOf(id).tasks))
             /\ \A k \in 1..Len(PriorOf(id).tasks) :
                  ws.tasks[k].id = PriorOf(id).tasks[k].id

C4_Witness ==
  \E id \in Ids :
    /\ Succeeded(id)
    /\ Len(PriorOf(id).tasks) = 2
    /\ RawOf(id).tasks = Append(PriorOf(id).tasks, Task(3))
    /\ ResponseOf(id).body.workspace.tasks = <<Task(1), Task(2), Task(3)>>

\* C5: a successful response returns the knowledgeHighlights of the request
\* unchanged (the prior value also when the update supplies none), and the
\* client's knowledgeHighlights stay those of its seed.
C5_HighlightsKept ==
  /\ \A id \in Ids :
       IsSome(handlers[id].merged) =>
         /\ Get(handlers[id].merged).knowledgeHighlights = PriorOf(id).knowledgeHighlights
         /\ Succeeded(id) =>
              ResponseOf(id).body.workspace.knowledgeHighlights =
                PriorOf(id).knowledgeHighlights
  /\ cs.workspace.knowledgeHighlights = seed.knowledgeHighlights

C5_Witness ==
  /\ cs.synced
  /\ nextId > 2
  /\ calls = <<>>
  /\ cs.workspace.tasks = Tasks(3)
  /\ seed.tasks = Tasks(1)
  /\ cs.workspace.knowledgeHighlights = Some(<<"h1", "h2">>)

\* C6: a merged workspace's updatedAt is strictly after the updatedAt of the
\* prior workspace of the request, whatever that workspace is.
C6_UpdatedAtAfterPrior ==
  \A id \in Ids :
    IsSome(handlers[id].merged) =>
      Get(handlers[id].merged).updatedAt > PriorOf(id).updatedAt

\* C7: when a call is sent the workspace an earlier successful call returned,
\* its merged updatedAt is strictly greater than that of the earlier call.
C7_SuccessiveCallsIncrease ==
  \A id \in Ids :
    (id \in DOMAIN calls /\ calls[id].sentSynced /\ IsSome(handlers[id].merged)) =>
      Get(handlers[id].merged).updatedAt > PriorOf(id).updatedAt

\* C8: a generated result over a list bound (12 tasks, 6 automations, 8
\* decisions, 8 insights) ends in the generic 500 before any merge; every
\* workspace of a 200 response is within the bounds whatever the prior lists
\* were, and has every generated item: the merger truncates nothing.
C8_BoundedLists ==
  \A id \in Ids :
    /\ ( /\ IsSome(handlers[id].gen)
         /\ Get(handlers[id].gen).kind = "object"
         /\ \/ Len(RawOf(id).tasks) > 12
            \/ Len(RawOf(id).automations) > 6
            \/ Len(RawOf(id).decisions) > 8
            \/ Len(RawOf(id).insights) > 8 ) =>
         /\ Finished(id)
         /\ ResponseOf(id) =
              [status |-> 500,
               body |-> [error |-> "The autonomous agent could not complete the request."]]
         /\ handlers[id].merged = None
    /\ Succeeded(id) =>
         LET ws == ResponseOf(id).body.workspace IN
           /\ Len(ws.tasks) <= 12
           /\ Len(ws.automations) <= 6
           /\ Len(ws.decisions) <= 8
           /\ Len(ws.insights) <= 8
           /\ Len(ws.tasks) = Len(RawOf(id).tasks)
           /\ Len(ws.automations) = Len(RawOf(id).automations)
           /\ Len(ws.decisions) = Len(RawOf(id).decisions)
           /\ Len(ws.insights) = Len(RawOf(id).insights)

C8_Witness ==
  \E id \in Ids :
    /\ Finished(id)
    /\ IsSome(handlers[id].gen)
    /\ Get(handlers[id].gen).kind = "object"
    /\ Len(RawOf(id).tasks) = 13
    /\ IsSome(handlers[id].body.workspace)
    /\ Len(PriorOf(id).tasks) = 13
    /\ ResponseOf(id).status = 500

\* C9: a response is either the one success (status 200 with reply,
\* workspace and actionSummary, all from the one validated result) or an
\* error (status 400 or 500) with an error message and no workspace.
C9_NoPartialWorkspace ==
  \A id \in Ids :
    /\ ~Finished(id) => handlers[id].response = None
    /\ Finished(id) =>
         \/ /\ ResponseOf(id).status = 200
            /\ DOMAIN ResponseOf(id).body = {"reply", "workspace", "actionSummary"}
            /\ ~GenerationFailed(id)
            /\ ResponseOf(id).body.reply = RawOf(id).reply
            /\ ResponseOf(id).body.actionSummary = RawOf(id).actionSummary
            /\ ResponseOf(id).body.workspace.tasks = RawOf(id).tasks
            /\ ResponseOf(id).body.workspace.automations = RawOf(id).automations
            /\ ResponseOf(id).body.workspace.decisions = RawOf(id).decisions
            /\ ResponseOf(id).body.workspace.insights = RawOf(id).insights
            /\ DOMAIN ResponseOf(id).body.workspace =
                 {"tasks", "automations", "decisions", "insights",
                  "knowledgeHighlights", "updatedAt"}
         \/ /\ ResponseOf(id).status \in {400, 500}
            /\ DOMAIN ResponseOf(id).body = {"error"}

C9_Witness ==
  \E id \in Ids :
    /\ Succeeded(id)
    /\ RawOf(id).tasks # PriorOf(id).tasks
    /\ PriorOf(id).tasks # <<>>

\* The steps of POST in the order of its text.
StageOrder ==
  << "CredentialCheck", "PayloadParse", "SystemPrompt", "KnowledgeRetrieval",
     "PromptComposition", "Generation", "Merge", "Response" >>

\* The stages the handler's state machine is described with.
NamedStages ==
  << "CredentialCheck", "PayloadParse", "KnowledgeRetrieval",
     "PromptComposition", "Generation", "Merge", "Response" >>

RECURSIVE Named(_)
Named(stages) ==
  IF stages = <<>> THEN <<>>
  ELSE IF stages[1] = "SystemPrompt" THEN Named(Tail(stages))
  ELSE <<stages[1]>> \o Named(Tail(stages))

Failed500or400(id) == Finished(id) /\ ResponseOf(id).status # 200

WellFormed(id) ==
  /\ handlers[id].body.kind = "json"
  /\ IsSome(handlers[id].body.messages)
  /\ IsSome(handlers[id].body.workspace)

\* C10 as stated: the stages run in the fixed order, each at most once, the
\* model is called at most once, and an error response comes only from
\* CredentialCheck, PayloadParse or Generation.
C10_ErrorsFromThreeStages ==
  \A id \in Ids :
    /\ IsPrefix(Named(handlers[id].stages), NamedStages)
    /\ handlers[id].genCalls <= 1
    /\ Failed500or400(id) =>
         Last(Named(handlers[id].stages)) \in
           {"CredentialCheck", "PayloadParse", "Generation"}

\* C10 amended: the stages run in the fixed order, each at most once, the
\* model is called at most once and a success has run them all; an error
\* response comes from CredentialCheck, PayloadParse or Generation, or, as
\* the same generic 500, from another step of the try block when the parsed
\* body is not a well-formed request.
C10_StageOrder ==
  \A id \in Ids :
    /\ IsPrefix(handlers[id].stages, StageOrder)
    /\ IsPrefix(Named(handlers[id].stages), NamedStages)
    /\ handlers[id].genCalls <= 1
    /\ Succeeded(id) => handlers[id].stages = StageOrder
    /\ Failed500or400(id) =>
         \/ Last(handlers[id].stages) \in {"CredentialCheck", "PayloadParse", "Generation"}
         \/ /\ ~WellFormed(id)
            /\ Last(handlers[id].stages) \in {"SystemPrompt", "KnowledgeRetrieval", "Merge"}
            /\ ResponseOf(id) =
                 [status |-> 500,
                  body |-> [error |-> "The autonomous agent could not complete the request."]]

C10_Witness ==
  \E id \in Ids :
    /\ Failed500or400(id)
    /\ handlers[id].body.kind = "json"
    /\ handlers[id].body.messages = None
    /\ IsSome(handlers[id].body.workspace)
    /\ Last(handlers[id].stages) = "KnowledgeRetrieval"

\* The positions of the user messages of a list.
UserPositions(messages) ==
  { k \in 1..Len(messages) : messages[k].role = "user" }

\* C11: the retrieval query is the content of the last user message of the
\* request, whatever follows it and whatever user messages precede it; with
\* no user message the retrieval is called with the empty string, returns,
\* and the request goes on to the generation call.
C11_LatestUserQuery ==
  \A id \in Ids :
    LET h == handlers[id] IN
      /\ IsSome(h.query) =>
           LET messages == Get(h.body.messages)
               users == UserPositions(messages) IN
             /\ users # {} =>
                  \E k \in users :
                    /\ \A j \in users : j <= k
                    /\ Get(h.query) = messages[k].content
             /\ users = {} => Get(h.query) = ""
             /\ IsSome(h.knowledge)
             /\ Finished(id) =>
                  /\ \E k \in 1..Len(h.stages) : h.stages[k] = "Generation"
                  /\ h.genCalls = 1
                  /\ Last(h.stages) # "KnowledgeRetrieval"
      /\ ( /\ apiKey
           /\ h.body.kind = "json"
           /\ IsSome(h.body.messages)
           /\ IsSome(h.body.workspace)
           /\ Finished(id) ) => IsSome(h.query)

C11_Witness ==
  \E id \in Ids :
    /\ Succeeded(id)
    /\ Get(handlers[id].body.messages) =
         <<User(1, "q1"), User(2, "q2"), Assistant(3, "a1"), Assistant(4, "a2")>>
    /\ handlers[id].query = Some("q2")

\* A request with no user message has come through the generation call.
C11_NoUserMessageReached ==
  \E id \in Ids :
    /\ Succeeded(id)
    /\ UserPositions(Get(handlers[id].body.messages)) = {}
    /\ Len(Get(handlers[id].body.messages)) > 0
    /\ handlers[id].query = Some("")

\* The calls of the client whose invocation of POST has merged.
Merged(id) == id \in DOMAIN calls /\ IsSome(handlers[id].merged)

\* Each merge is made from the request's own snapshot and the result of its
\* own generation call, and a valid result is never refused.
C12_IndependentMerges ==
  \A id \in Ids :
    /\ Merged(id) =>
         LET ws == Get(handlers[id].merged) IN
           /\ ws.tasks = RawOf(id).tasks
           /\ ws.automations = RawOf(id).automations
           /\ ws.decisions = RawOf(id).decisions
           /\ ws.insights = RawOf(id).insights
           /\ ws.knowledgeHighlights = PriorOf(id).knowledgeHighlights
    /\ ( /\ id \in DOMAIN calls
         /\ Finished(id)
         /\ IsSome(handlers[id].gen)
         /\ ~GenerationFailed(id) ) => Succeeded(id)

\* A step in which the client takes the response of call id as a success.
AppliesOk(id) ==
  /\ id \in DOMAIN calls
  /\ id \notin DOMAIN calls'
  /\ Succeeded(id)
  /\ Last(cs'.messages).id = 2 * id
  /\ Last(cs'.messages).content # FailureNotice

\* C12: calls sent with the same workspace snapshot are not coordinated: each
\* merge comes from that snapshot and its own generation alone, no request
\* is refused for its snapshot, and a success response replaces the client's
\* workspace with its own workspace whatever the client holds by then (so
\* the response that arrives last wins), raising no error.
C12_LastResponseWins ==
  /\ []C12_IndependentMerges
  /\ [][\A id \in DOMAIN calls :
          AppliesOk(id) =>
            /\ cs'.workspace = ResponseOf(id).body.workspace
            /\ cs'.error = cs.error]_vars

\* Both calls were sent before either response; the response of the second
\* was applied first and the response of the first, arriving last, has
\* replaced its workspace.
C12_Witness ==
  /\ calls = <<>>
  /\ nextId = 3
  /\ cs.error = None
  /\ Last(cs.messages).id = 2
  /\ cs.workspace.tasks = Tasks(2)
  /\ cs.workspace # seed

\* Two calls under way carry the same snapshot and have different merges.
C12_SameSnapshotReached ==
  /\ Merged(1)
  /\ Merged(2)
  /\ PriorOf(1) = PriorOf(2)
  /\ Succeeded(1)
  /\ Succeeded(2)
  /\ ResponseOf(1).body.workspace.tasks # ResponseOf(2).body.workspace.tasks

\* The invocation has thrown inside the try block.
Threw(id) == IsSome(handlers[id].logged)

\* C13: with the credential and a body that parses as JSON, a failure of any
\* step after the parse (system instructions, knowledge retrieval, prompt
\* composition, generation, merge) ends in status 500 with the one generic
\* message: never 400, never an invocation that ends without a response.  A
\* body without messages or without a workspace always ends so.
C13_DownstreamFailure ==
  \A id \in Ids :
    (apiKey /\ handlers[id].body.kind = "json") =>
      /\ Threw(id) =>
           /\ Finished(id)
           /\ IsSome(handlers[id].response)
           /\ ResponseOf(id) =
                [status |-> 500,
                 body |-> [error |-> "The autonomous agent could not complete the request."]]
           /\ Len(handlers[id].stages) > 2
           /\ SubSeq(handlers[id].stages, 1, 2) = <<"CredentialCheck", "PayloadParse">>
      /\ Finished(id) =>
           /\ IsSome(handlers[id].response)
           /\ ResponseOf(id).status # 400
           /\ ResponseOf(id).status \in {200, 500}
           /\ ResponseOf(id).status = 500 => Threw(id)
           /\ ( \/ handlers[id].body.messages = None
                \/ handlers[id].body.workspace = None ) =>
                ResponseOf(id).status = 500

C13_Witness ==
  \E id \in Ids :
    /\ apiKey
    /\ handlers[id].body.kind = "json"
    /\ IsSome(handlers[id].body.messages)
    /\ handlers[id].body.workspace = None
    /\ Finished(id)
    /\ Threw(id)
    /\ ResponseOf(id).status = 500

\* The requests of the client that are outstanding.
InFlight == DOMAIN calls

\* C14: the client never has more than one request in flight, and a call of
\* submitToAgent while isThinking is true appends nothing and sends nothing,
\* however submits and renders interleave.
C14_SingleRequestInFlight ==
  /\ Cardinality(InFlight) <= 1
  /\ InFlight # {} => cs.isThinking

\* What does hold of the guard: a call of submitToAgent whose closure has
\* isThinking true changes nothing (every request was sent by a closure
\* that had isThinking false).
C14_GuardOfClosure ==
  [][view.isThinking => (DOMAIN calls' \subseteq DOMAIN calls /\ nextId' = nextId)]_vars

\* Two requests are in flight, both sent by the closure of the first render.
C14_TwoInFlightReached ==
  /\ InFlight = {1, 2}
  /\ ~view.isThinking
  /\ cs.isThinking

\* A step in which call id settles.
Settles(id) == id \in DOMAIN calls /\ id \notin DOMAIN calls'

\* The user message call id appended when it was submitted.
UserMessageOf(id) == Last(calls[id].optimisticMessages)

FailureMessageOf(id) == Assistant(2 * id, FailureNotice)

\* The last two messages of a transcript.
LastTwo(messages) == SubSeq(messages, Len(messages) - 1, Len(messages))

\* C15: whenever a request fails, the workspace is left as it is,
\* the error is set, and the transcript then ends with the user's message of
\* that request followed by the one failure message.
C15_UserMessageThenFailure ==
  [][\A id \in DOMAIN calls :
       (Settles(id) /\ ~AppliesOk(id)) =>
         /\ cs'.workspace = cs.workspace
         /\ IsSome(cs'.error)
         /\ Len(cs'.messages) >= 2
         /\ LastTwo(cs'.messages) = <<UserMessageOf(id), FailureMessageOf(id)>>]_vars

\* What does hold of a failure (non-OK status, fetch rejected, body
\* unreadable): the workspace is left as it is, exactly one failure message
\* is appended to the transcript as it is at that moment, and the error is
\* set; the user's message of the request precedes the failure message when
\* the transcript is still the one that request left.  The workspace changes
\* only when a success response is applied, and then to the workspace of
\* that response.
C15_FailureFrame ==
  [][/\ \A id \in DOMAIN calls :
          Settles(id) =>
            /\ ~Succeeded(id) => ~AppliesOk(id)
            /\ AppliesOk(id) => cs'.workspace = ResponseOf(id).body.workspace
            /\ ~AppliesOk(id) =>
                 /\ cs'.workspace = cs.workspace
                 /\ cs'.messages = Append(cs.messages, FailureMessageOf(id))
                 /\ IsSome(cs'.error)
                 /\ cs.messages = calls[id].optimisticMessages =>
                      LastTwo(cs'.messages) = <<UserMessageOf(id), FailureMessageOf(id)>>
     /\ cs'.workspace # cs.workspace =>
          \E id \in DOMAIN calls :
            AppliesOk(id) /\ cs'.workspace = ResponseOf(id).body.workspace]_vars

\* A request got a non-OK response: the transcript ends with its user
\* message and the failure message, the workspace is the seed's.
C15_SingleFailureReached ==
  /\ calls = <<>>
  /\ nextId = 2
  /\ cs.error = Some(OfflineMessage)
  /\ cs.workspace = seed
  /\ cs.messages = SeedMessages \o <<User(1, "q1"), Assistant(2, FailureNotice)>>
  /\ ~cs.isThinking

\* The first request has failed after a second submit over the same closure:
\* its user message is gone, and its failure message follows the user
\* message of the second request, which is still outstanding.
C15_FailureAfterOtherUserReached ==
  /\ InFlight = {2}
  /\ IsSome(cs.error)
  /\ cs.workspace = seed
  /\ cs.messages = SeedMessages \o <<User(3, "q2"), Assistant(2, FailureNotice)>>

\* C16: isThinking is true exactly while a request is outstanding: set by
\* the submit, and false again once the request has settled, by a success
\* response, an error response or a thrown fetch error.
C16_ThinkingWhileOutstanding ==
  cs.isThinking <=> InFlight # {}

\* What does hold: every request that settles (success, error response,
\* rejected fetch, unreadable body) sets isThinking to false in the step in
\* which it settles, and isThinking is false whenever no request is
\* outstanding.
C16_ThinkingClears ==
  /\ [](InFlight = {} => ~cs.isThinking)
  /\ [][\A id \in DOMAIN calls : Settles(id) => ~cs'.isThinking]_vars

\* Of two requests in flight one has settled: isThinking is false, and so
\* the submit button is enabled, with the other request outstanding.
C16_IdleWhileOutstandingReached ==
  /\ Cardinality(InFlight) = 1
  /\ nextId = 3
  /\ ~cs.isThinking
  /\ ~view.isThinking

\* C17: the transcript is append-only: every step leaves the messages it
\* held in place and unchanged, a submit adds the user message at the end, and
\* a request that settles adds exactly one assistant message at the end, so
\* no handler replaces the list with a copy that lacks a message.
C17_AppendOnly ==
  [][/\ IsPrefix(cs.messages, cs'.messages)
     /\ \A id \in DOMAIN calls :
          Settles(id) =>
            /\ Len(cs'.messages) = Len(cs.messages) + 1
            /\ Last(cs'.messages).id = 2 * id
            /\ Last(cs'.messages).role = "assistant"]_vars

\* What does hold: with no other request in flight since the submit, a turn
\* adds its user message and then one assistant message.
C17_TurnWithoutOverlap ==
  [][\A id \in DOMAIN calls :
       (Settles(id) /\ cs.messages = calls[id].optimisticMessages) =>
         /\ Len(cs'.messages) = Len(cs.messages) + 1
         /\ IsPrefix(cs.messages, cs'.messages)
         /\ LastTwo(cs'.messages)[1] = UserMessageOf(id)
         /\ Last(cs'.messages).id = 2 * id
         /\ Last(cs'.messages).role = "assistant"]_vars

\* Both turns are over and the transcript holds the messages of one only:
\* the success handler of the first call has put back its own copy, without
\* the user message and the failure notice of the second.
C17_StaleOverwriteReached ==
  /\ InFlight = {}
  /\ nextId = 3
  /\ Len(cs.messages) = 3
  /\ Last(cs.messages).id = 2
  /\ IsSome(cs.error)

====
